---- MODULE Spec2Model ----
(***************************************************************************)
(* A model of the Toll Brothers scrapers:                                  *)
(*   get_tollbrothers_page.py      (TollBrothersDetailScraper, "detail")   *)
(*   get_tollbrothers_api_links.py (TollBrothersScraper, "listing")        *)
(* The page fetch (_safe_get_page) is modelled step by step; every call of *)
(* the rendering engine is a step whose outcome (success, timeout, other   *)
(* exception) is chosen nondeterministically.  Text is a sequence of       *)
(* one-character strings, so that formatting and stripping are computed.   *)
(***************************************************************************)
EXTENDS Integers, Sequences, FiniteSets, TLC

VARIABLES
    prog,        \* which script runs: "detail" or "listing"
    mode,        \* detail: "url", "batch", "none" (argparse); listing: "crawl"
    links,       \* detail batch: content of output/communities_links.json (urls)
    pc,          \* position of the single control thread
    driver,      \* self.driver: "none" (None), "ready", or "partial" (engine
                 \* started, a later configuration call of _setup_driver raised)
    engines,     \* engine sessions started and not yet told to quit
    curPage,     \* the page the held session shows
    f,           \* frame of the running _safe_get_page call
    g,           \* frame of the running get_community_details call
    idx,         \* main's loop index (1-based)
    info,        \* main's community_info
    success_count,
    produced,    \* urls of the records get_community_details returned, in order
    processed,   \* urls main handed to get_community_details, in order
    fetched,     \* urls whose community page fetch returned a document, in order
    json_saved,  \* the slugs whose <slug>.json was written (a set)
    html_saved,  \* the <<slug, page>> written as <slug>.html (a set)
    slept,       \* a politeness sleep happened since the last fetch call
    locations,   \* listing: result of get_locations
    all_links    \* listing: all_community_links

vars == << prog, mode, links, pc, driver, engines, curPage, f, g, idx, info,
           success_count, produced, processed, fetched, json_saved, html_saved,
           slept, locations, all_links >>

-----------------------------------------------------------------------------
(* Program constants and model bounds *)

max_retries == 3
retry_delay == 5

MaxLinks == 2      \* longest batch input
MaxCards == 1      \* most homesite cards on a community page
MaxCities == 2     \* most city links on the location index
MaxBlocks == 2     \* most well-formed structured-metadata blocks of a document
MaxFragments == 3  \* most bed/bath text fragments of a home-design section
MaxDesigns == 2    \* most home-design sections of a document

-----------------------------------------------------------------------------
(* Python values *)

PyNone == [t |-> "none"]
JStr(s) == [t |-> "str", s |-> s]
JDict(m) == [t |-> "dict", m |-> m]
JList(l) == [t |-> "list", l |-> l]
EmptyMap == [k \in {} |-> PyNone]
EmptyStr == JStr(<<>>)

\* bool(v) of a Python value
Truthy(v) ==
    CASE v.t = "none" -> FALSE
      [] v.t = "str"  -> v.s # <<>>
      [] v.t = "dict" -> DOMAIN v.m # {}
      [] v.t = "list" -> v.l # <<>>
      [] OTHER        -> TRUE

SeqToSet(q) == {q[i] : i \in 1..Len(q)}

\* dict.get(k, default)
Get(m, k, default) == IF k \in DOMAIN m THEN m[k] ELSE default

\* a or b
PyOr(a, b) == IF Truthy(a) THEN a ELSE b

RECURSIVE LStrip(_, _)
LStrip(s, chars) ==
    IF s # <<>> /\ Head(s) \in chars THEN LStrip(Tail(s), chars) ELSE s

RECURSIVE RStrip(_, _)
RStrip(s, chars) ==
    IF s # <<>> /\ s[Len(s)] \in chars
    THEN RStrip(SubSeq(s, 1, Len(s) - 1), chars)
    ELSE s

\* str.strip(chars)
Strip(s, chars) == RStrip(LStrip(s, chars), chars)

-----------------------------------------------------------------------------
(* Text: a sequence of one-character strings *)

Digits == {"0", "1", "2", "3", "4", "5", "6", "7", "8", "9"}
Space == {" "}
\* the characters of the model in code-point order (what min/max of str compare)
CharOrder == << " ", ",", "-", "/", "0", "1", "2", "3", "4", "5", "6", "7", "8",
                "9", "A", "B", "G", "Z", "a", "b", "d", "e", "f", "o", "q", "r", "s",
                "t", "x", "y" >>
Ord(c) == CHOOSE i \in 1..Len(CharOrder) : CharOrder[i] = c
WordChars == {CharOrder[i] : i \in 5..Len(CharOrder)}

DigitVal(c) == Ord(c) - Ord("0")

\* int(s) of a string of digits
RECURSIVE ToInt(_)
ToInt(s) == IF s = <<>> THEN 0 ELSE 10 * ToInt(SubSeq(s, 1, Len(s) - 1)) + DigitVal(s[Len(s)])

\* str(n) of a natural number
RECURSIVE ToText(_)
ToText(n) == IF n < 10 THEN << CharOrder[Ord("0") + n] >>
             ELSE ToText(n \div 10) \o << CharOrder[Ord("0") + (n % 10)] >>

\* str.isdigit()
IsDigitText(s) == s # <<>> /\ \A i \in 1..Len(s) : s[i] \in Digits

\* a < b for str
RECURSIVE TextLess(_, _)
TextLess(a, b) ==
    IF b = <<>> THEN FALSE
    ELSE IF a = <<>> THEN TRUE
    ELSE IF Head(a) = Head(b) THEN TextLess(Tail(a), Tail(b))
    ELSE Ord(Head(a)) < Ord(Head(b))

\* min(S), max(S) of a non-empty set of str
TextMin(S) == CHOOSE a \in S : \A b \in S : a = b \/ TextLess(a, b)
TextMax(S) == CHOOSE a \in S : \A b \in S : a = b \/ TextLess(b, a)

\* sub in s
Contains(s, sub) ==
    \E i \in 1..(Len(s) - Len(sub) + 1) : SubSeq(s, i, i + Len(sub) - 1) = sub

AllIn(s, i, j, chars) == \A k \in i..j : s[k] \in chars

\* s[i-1:j], empty when it reaches past the end
Slice(s, i, j) == IF i >= 1 /\ j <= Len(s) THEN SubSeq(s, i, j) ELSE <<>>

-----------------------------------------------------------------------------
(* Documents: what the parser hands to the extractors *)

\* a url or an image src is an atom; Url("data:1") is an inlined image
Url(u) == [t |-> "url", u |-> u]
DataUrls == {"data:1"}
IsData(v) == v.u \in DataUrls

BlankDoc ==
    [blocks    |-> <<>>,     \* <script type="application/ld+json"> in order
     overview  |-> PyNone,   \* text of p.CommunityOverview_overviewDescription
     gallery   |-> PyNone,   \* src of the <img> under id=toScroll-gallery
     designs   |-> <<>>,     \* the div.*home-design* sections
     amenities |-> <<>>,     \* div.*amenity* under the "Elevate the Everyday" section
     cards     |-> <<>>,     \* homesite cards (detail) or community cards (listing)
     heading   |-> PyNone,   \* text of the first h1, h2 or h3
     imgs      |-> <<>>,     \* src of every <img> of the document
     phone     |-> PyNone,   \* first text node matching \d{3}-\d{3}-\d{4}
     address   |-> PyNone,   \* text of the first div matching Goodyear, AZ \d{5}
     cities    |-> <<>>]     \* listing: city links of the location index

\* a JSON-LD script: json.loads raises on it, or yields a value
Malformed == [parses |-> FALSE, data |-> PyNone]
Block(data) == [parses |-> TRUE, data |-> data]

\* a type name is a text of one token
AllowedTypes == {<<"SingleFamilyResidence">>, <<"Residence">>, <<"WebPage">>,
                 <<"Place">>, <<"Organization">>}

\* dict.update
Update(a, b) ==
    [k \in DOMAIN a \cup DOMAIN b |-> IF k \in DOMAIN b THEN b[k] ELSE a[k]]

Accepted(b) ==
    /\ b.parses
    /\ b.data.t = "dict"
    /\ Get(b.data.m, "@type", PyNone).t = "str"
    /\ Get(b.data.m, "@type", PyNone).s \in AllowedTypes

\* variant: one try around the whole loop, so the first block that raises ends it
RECURSIVE extract_jsonld_data_Aborts(_)
extract_jsonld_data_Aborts(blocks) ==
    IF blocks = <<>> THEN EmptyMap
    ELSE LET prefix == SubSeq(blocks, 1, Len(blocks) - 1)
             before == extract_jsonld_data_Aborts(prefix)
             last == blocks[Len(blocks)]
         IN IF \E i \in 1..Len(prefix) : ~prefix[i].parses THEN before
            ELSE IF Accepted(last) THEN Update(before, last.data.m) ELSE before

RECURSIVE extract_jsonld_data(_)
extract_jsonld_data(blocks) ==
    IF blocks = <<>> THEN EmptyMap
    ELSE LET before == extract_jsonld_data(SubSeq(blocks, 1, Len(blocks) - 1))
             last == blocks[Len(blocks)]
         IN IF Accepted(last) THEN Update(before, last.data.m) ELSE before

\* f"{street}, {locality}, {region} {postal}".strip(', ')
FieldText(m, k) == Get(m, k, EmptyStr).s
FormatAddress(addr) ==
    JStr(Strip(FieldText(addr, "streetAddress") \o <<",", " ">>
               \o FieldText(addr, "addressLocality") \o <<",", " ">>
               \o FieldText(addr, "addressRegion") \o <<" ">>
               \o FieldText(addr, "postalCode"), {",", " "}))

HasDict(jsonld, k) == k \in DOMAIN jsonld /\ jsonld[k].t = "dict"

\* images out of the structured metadata: a list, one string, or nothing
JsonldImages(jsonld, default) ==
    IF "image" \in DOMAIN jsonld
    THEN CASE jsonld["image"].t = "list" -> jsonld["image"].l
           [] jsonld["image"].t = "url"  -> << jsonld["image"] >>
           [] OTHER -> default
    ELSE default

RECURSIVE extract_images_from(_)
extract_images_from(srcs) ==
    IF srcs = <<>> THEN <<>>
    ELSE LET rest == extract_images_from(SubSeq(srcs, 1, Len(srcs) - 1))
             src == srcs[Len(srcs)]
         IN IF Truthy(src) /\ ~IsData(src) THEN Append(rest, src) ELSE rest

extract_images(doc) ==
    IF doc.gallery = PyNone THEN <<>> ELSE extract_images_from(doc.gallery.l)

\* soup.find(text=re.compile(r'\d{3}-\d{3}-\d{4}')), stripped, or ""
extract_phone(doc) ==
    IF Truthy(doc.phone) THEN JStr(Strip(doc.phone.s, Space)) ELSE EmptyStr

\* soup.find('div', string=re.compile(r'Goodyear, AZ \d{5}')), stripped, or ""
extract_address(doc) ==
    IF doc.address # PyNone THEN JStr(Strip(doc.address.s, Space)) ELSE EmptyStr

-----------------------------------------------------------------------------
(* Range extractors over the home-design sections.  A design is            *)
(* [h3 |-> text or PyNone, texts |-> its text nodes in document order].    *)

\* re.search(r'\d+\s*(?:<one of units>)', t)
UnitMatch(t, units) ==
    \E i \in 1..Len(t) : \E j \in i..Len(t) : \E u \in units :
        /\ t[i] \in Digits
        /\ AllIn(t, i + 1, j, Space)
        /\ Slice(t, j + 1, j + Len(u)) = u

Bd == <<"b", "d">>
Ba == <<"b", "a">>
Sqft == <<"s", "q", "f", "t">>

\* design.find_all(text=re.compile(r'\d+\s*(?:bd|ba)'))
BedBathSpecs(design) ==
    LET M(t) == UnitMatch(t, {Bd, Ba}) IN SelectSeq(design.texts, M)

AllSpecs(designs) ==
    UNION {SeqToSet(BedBathSpecs(designs[i])) : i \in 1..Len(designs)}

RangeText(S) ==
    IF S = {} THEN PyNone
    ELSE JStr(TextMin(S) \o <<" ", "-", " ">> \o TextMax(S))

\* (beds_range, baths_range)
extract_beds_baths_range(doc) ==
    LET specs == AllSpecs(doc.designs)
        beds  == {Strip(t, Space) : t \in {x \in specs : Contains(x, Bd)}}
        baths == {Strip(t, Space) :
                    t \in {x \in specs : ~Contains(x, Bd) /\ Contains(x, Ba)}}
    IN << RangeText(beds), RangeText(baths) >>

\* the ends e of a match of \d{1,3}(?:,\d{3})* that starts at i
RECURSIVE GroupEnds(_, _)
GroupEnds(t, e) ==
    {e} \cup
    (IF e + 4 <= Len(t) /\ t[e + 1] = "," /\ AllIn(t, e + 2, e + 4, Digits)
     THEN GroupEnds(t, e + 4) ELSE {})

Max(S) == CHOOSE a \in S : \A b \in S : b <= a
Min(S) == CHOOSE a \in S : \A b \in S : a <= b

NumEnds(t, i) ==
    UNION {GroupEnds(t, i + d - 1) :
             d \in {d \in 1..3 : i + d - 1 <= Len(t) /\ AllIn(t, i, i + d - 1, Digits)}}

\* re.search(r'\d{1,3}(?:,\d{3})*\s*sqft', t)
SqftMatch(t) ==
    \E i \in 1..Len(t) : \E e \in NumEnds(t, i) : \E j \in e..Len(t) :
        /\ AllIn(t, e + 1, j, Space)
        /\ Slice(t, j + 1, j + 4) = Sqft

\* re.search(r'(\d{1,3}(?:,\d{3})*)', t).group(1): leftmost, greedy
FirstNumber(t) ==
    LET i == Min({k \in 1..Len(t) : t[k] \in Digits})
        d == Max({k \in 1..3 : i + k - 1 <= Len(t) /\ AllIn(t, i, i + k - 1, Digits)})
        e == Max(GroupEnds(t, i + d - 1))
    IN SubSeq(t, i, e)

\* s.replace(',', '')
NoCommas(s) == LET Keep(c) == c # "," IN SelectSeq(s, Keep)

\* the integers extract_sqft_range collects: one per design, from its first
\* text node that matches
SqftValues(designs) ==
    {ToInt(NoCommas(FirstNumber(
        LET M(t) == SqftMatch(t) IN Head(SelectSeq(designs[i].texts, M))))) :
       i \in {k \in 1..Len(designs) :
                \E n \in 1..Len(designs[k].texts) : SqftMatch(designs[k].texts[n])}}

\* f"{n:,}"
RECURSIVE Thousands(_)
Thousands(n) ==
    IF n < 1000 THEN ToText(n)
    ELSE Thousands(n \div 1000) \o <<",">>
         \o SubSeq(ToText(1000 + (n % 1000)), 2, 4)

extract_sqft_range(doc) ==
    LET S == SqftValues(doc.designs)
    IN IF S = {} THEN PyNone
       ELSE JStr(Thousands(Min(S)) \o <<" ", "-", " ">> \o Thousands(Max(S)))

\* amenity items that have an h3
RECURSIVE extract_amenities(_)
extract_amenities(items) ==
    IF items = <<>> THEN <<>>
    ELSE LET rest == extract_amenities(SubSeq(items, 1, Len(items) - 1))
             item == items[Len(items)]
         IN IF item.h3 = PyNone THEN rest
            ELSE Append(rest,
                   [name |-> JStr(Strip(item.h3.s, Space)),
                    description |-> IF item.p = PyNone THEN EmptyStr
                                    ELSE JStr(Strip(item.p.s, Space)),
                    icon_url |-> EmptyStr])

\* next((d for d in details if unit in d), "")
FirstWith(details, unit) ==
    LET M(t) == Contains(t, unit)
        hits == SelectSeq(details, M)
    IN IF hits = <<>> THEN EmptyStr ELSE JStr(Head(hits))

RECURSIVE extract_homeplans(_)
extract_homeplans(designs) ==
    IF designs = <<>> THEN <<>>
    ELSE LET rest == extract_homeplans(SubSeq(designs, 1, Len(designs) - 1))
             design == designs[Len(designs)]
             M(t) == UnitMatch(t, {Bd, Ba, Sqft})
             details == SelectSeq(design.texts, M)
         IN IF design.h3 = PyNone \/ details = <<>> THEN rest
            ELSE Append(rest,
                   [name |-> JStr(Strip(design.h3.s, Space)),
                    url |-> EmptyStr,
                    details |-> [price |-> EmptyStr,
                                 beds |-> FirstWith(details, Bd),
                                 baths |-> FirstWith(details, Ba),
                                 sqft |-> FirstWith(details, Sqft),
                                 status |-> EmptyStr,
                                 image_url |-> EmptyStr],
                    includedFeatures |-> <<>>])

-----------------------------------------------------------------------------
(* Homesites: one card of the community page and its own detail page *)

BlankCard ==
    [href |-> PyNone, img |-> PyNone, name |-> PyNone, price |-> PyNone,
     beds |-> PyNone, baths |-> PyNone, sqft |-> PyNone, status |-> PyNone]

\* elem.text.strip() if elem else None
StripOrNone(v) == IF v = PyNone THEN PyNone ELSE JStr(Strip(v.s, Space))

\* re.search(r'/(\w+)$', url).group(1), or None
IdOf(t) ==
    IF \E i \in 1..(Len(t) - 1) : t[i] = "/" /\ AllIn(t, i + 1, Len(t), WordChars)
    THEN JStr(SubSeq(t, 1 + Max({i \in 1..(Len(t) - 1) : t[i] = "/"}), Len(t)))
    ELSE PyNone

\* the detail page's <img> scan: src present, not a data url, not yet collected
RECURSIVE MoreImages(_, _)
MoreImages(images, srcs) ==
    IF srcs = <<>> THEN images
    ELSE LET src == Head(srcs)
         IN MoreImages(IF Truthy(src) /\ ~IsData(src) /\ src \notin SeqToSet(images)
                       THEN Append(images, src) ELSE images,
                       Tail(srcs))

\* the images of a homesite: the card's image, replaced by the structured
\* metadata's, extended by the scan when fewer than 2 were found
HomesiteImages(card, detail) ==
    LET fromCard == IF Truthy(card.img) THEN << card.img >> ELSE <<>>
    IN IF detail = PyNone THEN fromCard
       ELSE LET jsonld == extract_jsonld_data(detail.blocks)
                images == JsonldImages(jsonld, fromCard)
            IN IF Len(images) < 2 THEN MoreImages(images, detail.imgs) ELSE images

\* re.search on a jsonld['url'] that is no string raises TypeError, which the
\* per-card handler catches: the card is dropped
HomesiteRaises(card, detail) ==
    /\ detail # PyNone
    /\ LET jsonld == extract_jsonld_data(detail.blocks)
       IN "url" \in DOMAIN jsonld /\ jsonld["url"].t # "str"

\* int(baths) if baths and baths.isdigit() else None
IntOrNone(v) ==
    IF Truthy(v) /\ IsDigitText(v.s) THEN [t |-> "int", n |-> ToInt(v.s)] ELSE PyNone

Homesite(card, detail) ==
    LET jsonld == IF detail = PyNone THEN EmptyMap
                  ELSE extract_jsonld_data(detail.blocks)
        images == HomesiteImages(card, detail)
        baths  == StripOrNone(card.baths)
    IN [name      |-> StripOrNone(card.name),
        plan      |-> IF detail = PyNone THEN PyNone ELSE StripOrNone(detail.heading),
        id        |-> IF "url" \in DOMAIN jsonld THEN IdOf(jsonld["url"].s) ELSE PyNone,
        address   |-> IF HasDict(jsonld, "address")
                      THEN FormatAddress(jsonld["address"].m) ELSE PyNone,
        price     |-> StripOrNone(card.price),
        beds      |-> StripOrNone(card.beds),
        baths     |-> IntOrNone(baths),
        sqft      |-> IF card.sqft = PyNone THEN PyNone
                      ELSE JStr(NoCommas(Strip(card.sqft.s, Space))),
        status    |-> StripOrNone(card.status),
        image_url |-> IF images = <<>> THEN PyNone ELSE images[1],
        url       |-> card.href,
        latitude  |-> IF HasDict(jsonld, "geo")
                      THEN Get(jsonld["geo"].m, "latitude", PyNone) ELSE PyNone,
        longitude |-> IF HasDict(jsonld, "geo")
                      THEN Get(jsonld["geo"].m, "longitude", PyNone) ELSE PyNone,
        overview  |-> Get(jsonld, "description", PyNone),
        images    |-> images]

-----------------------------------------------------------------------------
(* Record assembly: get_community_details after the fetch *)

\* jsonld.get('offers', {}).get('price', None) raises AttributeError when the
\* offers value is no dict; Python evaluates it only when priceRange is falsy
PriceRaises(jsonld) ==
    /\ ~Truthy(Get(jsonld, "priceRange", PyNone))
    /\ Get(jsonld, "offers", JDict(EmptyMap)).t # "dict"

Price(jsonld) ==
    PyOr(Get(jsonld, "priceRange", PyNone),
         Get(Get(jsonld, "offers", JDict(EmptyMap)).m, "price", PyNone))

Description(doc, jsonld) ==
    IF doc.overview # PyNone THEN JStr(Strip(doc.overview.s, Space))
    ELSE PyOr(Get(jsonld, "description", EmptyStr), EmptyStr)

\* variant: the location literal without its nested address
Location_Flat(jsonld) ==
    [latitude  |-> IF HasDict(jsonld, "geo")
                   THEN Get(jsonld["geo"].m, "latitude", PyNone) ELSE PyNone,
     longitude |-> IF HasDict(jsonld, "geo")
                   THEN Get(jsonld["geo"].m, "longitude", PyNone) ELSE PyNone]

Location(jsonld) ==
    [latitude  |-> IF HasDict(jsonld, "geo")
                   THEN Get(jsonld["geo"].m, "latitude", PyNone) ELSE PyNone,
     longitude |-> IF HasDict(jsonld, "geo")
                   THEN Get(jsonld["geo"].m, "longitude", PyNone) ELSE PyNone,
     address   |-> [city   |-> IF HasDict(jsonld, "address")
                               THEN Get(jsonld["address"].m, "addressLocality", PyNone)
                               ELSE PyNone,
                    state  |-> IF HasDict(jsonld, "address")
                               THEN Get(jsonld["address"].m, "addressRegion", PyNone)
                               ELSE PyNone,
                    market |-> PyNone]]

CommunityImages(doc, jsonld) ==
    LET images == JsonldImages(jsonld, <<>>)
    IN IF images = <<>> THEN extract_images(doc) ELSE images

\* the community_info literal; the timestamp is the clock's, not the page's
community_info(doc, community_url, homesites) ==
    LET jsonld == extract_jsonld_data(doc.blocks)
        price  == Price(jsonld)
        ranges == extract_beds_baths_range(doc)
    IN [timestamp   |-> "now",
        name        |-> PyOr(Get(jsonld, "name", EmptyStr), EmptyStr),
        url         |-> community_url,
        status      |-> PyNone,
        price_from  |-> price,
        address     |-> IF HasDict(jsonld, "address")
                        THEN FormatAddress(jsonld["address"].m) ELSE EmptyStr,
        phone       |-> Get(jsonld, "telephone", EmptyStr),
        description |-> Description(doc, jsonld),
        images      |-> CommunityImages(doc, jsonld),
        location    |-> Location(jsonld),
        details     |-> [price_range     |-> price,
                         sqft_range      |-> extract_sqft_range(doc),
                         bed_range       |-> ranges[1],
                         bath_range      |-> ranges[2],
                         stories_range   |-> EmptyStr,
                         community_count |-> 0],
        amenities   |-> extract_amenities(doc.amenities),
        homeplans   |-> extract_homeplans(doc.designs),
        homesites   |-> homesites,
        nearbyplaces |-> <<>>]

-----------------------------------------------------------------------------
(* The site: the urls of the model and the documents it may serve *)

SeqsUpTo(S, n) == UNION {[1..k -> S] : k \in 0..n}

BaseUrl == "base"
CityUrls == {"city1", "city2"}
CommunityList == << "c1", "c2", "c3", "c4" >>
CommunityUrls == SeqToSet(CommunityList)
HomesiteUrls == {"h1"}

Num(n) == [t |-> "num", n |-> n]
TypeKey == "@type"
Ld(type, fields) == Block(JDict((TypeKey :> JStr(<< type >>)) @@ fields))

AddressLd ==
    JDict(("streetAddress" :> JStr(<<"1", " ", "A">>))
          @@ ("addressLocality" :> JStr(<<"B">>))
          @@ ("addressRegion" :> JStr(<<"A", "Z">>))
          @@ ("postalCode" :> JStr(<<"8", "5">>)))

FullDoc ==
    [BlankDoc EXCEPT
       !.blocks = << Malformed,
                     Ld("Place", ("name" :> JStr(<<"A", "a">>))
                                 @@ ("telephone" :> JStr(<<"5", "-", "5">>))
                                 @@ ("address" :> AddressLd)
                                 @@ ("offers" :> JDict("price" :> JStr(<<"9">>)))
                                 @@ ("geo" :> JDict(("latitude" :> Num(33))
                                                    @@ ("longitude" :> Num(112))))) >>,
       !.overview = JStr(<<" ", "a", "b">>),
       !.gallery = JList(<< Url("A"), Url("data:1"), Url("B") >>),
       !.designs = << [h3 |-> JStr(<<"Z">>),
                       texts |-> << <<"3", " ", "b", "d">>, <<"2", " ", "b", "a">>,
                                    <<"1", ",", "2", "5", "0", " ", "s", "q", "f", "t">> >>] >>,
       !.amenities = << [h3 |-> JStr(<<"a">>), p |-> PyNone] >>]

\* the offers of the structured metadata are a list, as schema.org allows
OffersListDoc ==
    [BlankDoc EXCEPT
       !.blocks = << Ld("Place", ("name" :> JStr(<<"B", "b">>))
                                 @@ ("offers" :> JList(<< JDict("price" :> JStr(<<"9">>)) >>))) >>,
       !.gallery = JList(<< Url("A") >>)]

\* the same with a priceRange, which Python's `or` takes first
PriceRangeDoc ==
    [BlankDoc EXCEPT
       !.blocks = << Ld("Place", ("priceRange" :> JStr(<<"9">>))
                                 @@ ("offers" :> JList(<<>>))) >>]

HomesiteCards ==
    { [BlankCard EXCEPT !.href = Url("h1"), !.img = Url("A"),
                        !.name = JStr(<<"Z">>), !.beds = JStr(<<"3">>),
                        !.baths = JStr(<<" ", "2">>),
                        !.sqft = JStr(<<"1", ",", "2", "5", "0">>)],
      [BlankCard EXCEPT !.name = JStr(<<"x">>)] }

CommunityDocs ==
    {BlankDoc, OffersListDoc, PriceRangeDoc}
    \cup {[FullDoc EXCEPT !.cards = cs] : cs \in SeqsUpTo(HomesiteCards, MaxCards)}

HomesiteDocs ==
    { [BlankDoc EXCEPT !.heading = JStr(<<"A", " ">>),
                       !.imgs = << Url("A"), Url("data:1"), Url("B") >>],
      [BlankDoc EXCEPT
         !.blocks = << Ld("Residence",
                          ("url" :> JStr(<<"/", "a", "/", "b", "1">>))
                          @@ ("image" :> JList(<< Url("B"), Url("A") >>))
                          @@ ("address" :> AddressLd)) >>],
      [BlankDoc EXCEPT
         !.blocks = << Ld("Residence", "url" :> JList(<<>>)) >>] }

\* listing: a community card is [href, bad]; bad: a detail item without <img>
CommunityCards ==
    { [href |-> Url("c1"), bad |-> FALSE], [href |-> Url("c2"), bad |-> TRUE],
      [href |-> PyNone, bad |-> FALSE] }

IndexDocs ==
    {[BlankDoc EXCEPT !.cities = cs] :
        cs \in SeqsUpTo({Url(u) : u \in CityUrls}, MaxCities)}

CityDocs == {[BlankDoc EXCEPT !.cards = cs] : cs \in SeqsUpTo(CommunityCards, 1)}

Pages(url) ==
    CASE url \in CommunityUrls -> CommunityDocs
      [] url \in HomesiteUrls -> HomesiteDocs
      [] url = BaseUrl -> IndexDocs
      [] url \in CityUrls -> CityDocs
      [] OTHER -> {BlankDoc}

-----------------------------------------------------------------------------
(* Documents for the extractors: pages and cards the site may equally serve *)

SeqsFromTo(S, m, n) == UNION {[1..k -> S] : k \in m..n}
InsertAt(q, i, x) == SubSeq(q, 1, i) \o << x >> \o SubSeq(q, i + 1, Len(q))

PhoneTexts ==
    {PyNone, JStr(<<" ", "5", "5", "5", "-", "5", "5", "5", "-", "5", "5", "5", "5">>)}
AddressDivs ==
    {PyNone, JStr(<<"G", "o", "o", "d", "y", "e", "a", "r", ",", " ", "A", "Z", " ",
                    "8", "5", "3", "3", "8", " ">>)}
ContactBlocks ==
    { <<>>,
      << Ld("Place", "name" :> JStr(<<"A", "a">>)) >>,
      << Ld("Place", ("name" :> JStr(<<"A", "a">>))
                     @@ ("telephone" :> JStr(<<"5", "-", "5">>))
                     @@ ("address" :> AddressLd)) >> }

\* pages with and without contact data in the metadata and in the markup
ContactDocs ==
    {[BlankDoc EXCEPT !.blocks = b, !.phone = p, !.address = a] :
        b \in ContactBlocks, p \in PhoneTexts, a \in AddressDivs}

\* <script> whose string is None: json.loads raises TypeError
EmptyScript == [parses |-> FALSE, data |-> EmptyStr]
BadBlocks == {Malformed, EmptyScript}
ValidBlocks ==
    { Ld("Place", ("name" :> JStr(<<"A", "a">>)) @@ ("telephone" :> JStr(<<"5", "-", "5">>))),
      Ld("Organization", "name" :> JStr(<<"B", "b">>)),
      Ld("WebPage", "description" :> JStr(<<"a", "b">>)) }

\* pages with 1..MaxBlocks well-formed blocks and one bad block at any place
JsonldDocs ==
    UNION {{[BlankDoc EXCEPT !.blocks = InsertAt(q, i, b)] : i \in 0..Len(q), b \in BadBlocks} :
             q \in SeqsFromTo(ValidBlocks, 1, MaxBlocks)}

BedBathFragments ==
    { <<"3", " ", "b", "d">>, <<"4", " ", "b", "d">>, <<"5", " ", "b", "d">>,
      <<"1", "0", " ", "b", "d">>, <<"2", " ", "b", "a">>, <<"1", "2", " ", "b", "a">> }

\* pages with one home-design section holding up to MaxFragments fragments
RangeDocs ==
    {[BlankDoc EXCEPT !.designs = << [h3 |-> PyNone, texts |-> q] >>] :
        q \in SeqsUpTo(BedBathFragments, MaxFragments)}

SqftTexts ==
    { <<"1", ",", "2", "5", "0", " ", "s", "q", "f", "t">>,
      <<"1", "2", "5", "0", " ", "s", "q", "f", "t">>,
      <<"9", "8", "0", " ", "s", "q", "f", "t">>,
      <<"1", "2", ",", "5", "0", "0", " ", "s", "q", "f", "t">> }

\* pages with 1..MaxDesigns home-design sections, one area text each
SqftDocs ==
    {[BlankDoc EXCEPT !.designs = [i \in DOMAIN q |-> [h3 |-> PyNone, texts |-> << q[i] >>]]] :
        q \in SeqsFromTo(SqftTexts, 1, MaxDesigns)}

ImageValues ==
    { PyNone, Url("A"), JList(<< Url("A"), Url("B") >>), JList(<< Url("B") >>),
      JList(<< Url("A"), Url("A") >>), JList(<< Url("data:1"), Url("A") >>) }
ImageBlocks(v) == IF v = PyNone THEN <<>> ELSE << Ld("Residence", "image" :> v) >>
SrcLists ==
    { <<>>, << Url("B"), Url("C") >>, << Url("A"), Url("data:1"), Url("B") >>,
      << Url("A"), Url("A") >> }

\* community pages with images in the metadata and in the gallery
GalleryDocs ==
    {[BlankDoc EXCEPT !.blocks = ImageBlocks(v),
                      !.gallery = IF srcs = <<>> THEN PyNone ELSE JList(srcs)] :
        v \in ImageValues, srcs \in SrcLists}

ExtractDocs == ContactDocs \cup JsonldDocs \cup RangeDocs \cup SqftDocs \cup GalleryDocs

\* homesite cards with a link, and the detail pages behind it
ExtractCards ==
    {[BlankCard EXCEPT !.href = Url("h1"), !.img = i, !.beds = bd, !.baths = ba] :
        i \in {PyNone, Url("A")},
        bd \in {PyNone, JStr(<<"3">>), JStr(<<"3", " ", "b", "d">>)},
        ba \in {PyNone, JStr(<<" ", "2">>), JStr(<<"2", " ", "b", "a">>)}}
ExtractDetails ==
    {[BlankDoc EXCEPT !.blocks = ImageBlocks(v), !.imgs = srcs] :
        v \in ImageValues, srcs \in SrcLists}

-----------------------------------------------------------------------------
(* The page fetch: _safe_get_page *)

Ev(e, n) == [e |-> e, n |-> n]
Count(log, e) == Cardinality({i \in 1..Len(log) : log[i].e = e})

Running == [t |-> "running"]
DocResult(att, doc) == [t |-> "doc", att |-> att, doc |-> doc]
NoSource == [att |-> 0, doc |-> PyNone]

\* f.attempt is the loop variable (0-based); f.log is the history of this call:
\* setup, setup_fail, nav, fail, quit and ok carry the attempt number counted
\* from 1, sleep carries the seconds slept
NewFrame(url, wait, caller) ==
    [url |-> url, wait |-> wait, caller |-> caller, attempt |-> 0,
     timeouts |-> 0, fault |-> "", log |-> <<>>, source |-> NoSource,
     ret |-> Running]

\* what the call of self._safe_get_page(url, wait) does to the state
FetchCall(url, wait, caller) ==
    /\ f' = NewFrame(url, wait, caller)
    /\ pc' = "f_begin"
    /\ slept' = FALSE

mainVars == << prog, mode, links, idx, info, success_count, produced, processed,
               fetched, json_saved, html_saved, locations, all_links >>

Log(events) == [f EXCEPT !.log = f.log \o events]

\* return from _safe_get_page
Return(frame, ret) ==
    /\ f' = [frame EXCEPT !.ret = ret]
    /\ pc' = "f_return"

\* an exception raised by step `fault` reaches the handler of the attempt
Raise(fault) ==
    /\ pc' = "f_except"
    /\ f' = [f EXCEPT !.fault = fault]

SetupOutcomes == {"ok", "no_engine", "config"}

\* _setup_driver: webdriver.Chrome raises ("no_engine": self.driver is not
\* assigned), a later call raises ("config": the engine runs and self.driver
\* holds it), or all succeed; True only for "ok"
SetupDriver(outcome) ==
    /\ driver' = CASE outcome = "ok" -> "ready"
                   [] outcome = "config" -> "partial"
                   [] OTHER -> driver
    /\ engines' = IF outcome = "no_engine" THEN engines ELSE engines + 1
    /\ curPage' = IF outcome = "no_engine" THEN curPage ELSE "blank"

\* top of one attempt: create the session when none is held
FetchBegin ==
    /\ pc = "f_begin"
    /\ IF driver = "none"
       THEN \E o \in SetupOutcomes :
              /\ SetupDriver(o)
              /\ IF o = "ok"
                 THEN /\ f' = Log(<< Ev("setup", f.attempt + 1) >>)
                      /\ pc' = "f_nav"
                 ELSE Return(Log(<< Ev("setup_fail", f.attempt + 1) >>), PyNone)
       ELSE /\ pc' = "f_nav"
            /\ UNCHANGED << f, driver, engines, curPage >>
    /\ UNCHANGED << mainVars, g, slept >>

\* self.driver.get(url), then the fixed settle delay
FetchNav ==
    /\ pc = "f_nav"
    /\ \/ /\ curPage' = f.url
          /\ f' = Log(<< Ev("nav", f.attempt + 1) >>)
          /\ pc' = IF f.wait = "" THEN "f_ready" ELSE "f_marker"
       \/ /\ curPage' \in {curPage, f.url}
          /\ f' = [Log(<< Ev("nav", f.attempt + 1) >>) EXCEPT !.fault = "nav"]
          /\ pc' = "f_except"
    /\ UNCHANGED << mainVars, g, slept, driver, engines >>

Timeout == f' = [f EXCEPT !.timeouts = f.timeouts + 1]

\* where a TimeoutException of the marker wait leads
AfterMarkerTimeout(p) == IF p = "detail" THEN "f_backup" ELSE "f_ready"

\* WebDriverWait(...).until(presence_of_element_located((By.CLASS_NAME, wait_class)))
FetchMarker ==
    /\ pc = "f_marker"
    /\ \/ pc' = "f_ready" /\ UNCHANGED f
       \/ pc' = AfterMarkerTimeout(prog) /\ Timeout
       \/ Raise("marker")
    /\ UNCHANGED << mainVars, g, slept, driver, engines, curPage >>

\* detail only: the fallback wait for the body tag
FetchBackup ==
    /\ pc = "f_backup"
    /\ \/ pc' = "f_ready" /\ UNCHANGED f
       \/ pc' = "f_ready" /\ Timeout
       \/ Raise("backup")
    /\ UNCHANGED << mainVars, g, slept, driver, engines, curPage >>

\* variant: the document-ready wait has no except TimeoutException
AfterReadyTimeout_Raises == "f_except"

\* where a TimeoutException of the document-ready wait leads
AfterReadyTimeout == "f_source"

\* WebDriverWait(...).until(document.readyState == 'complete')
FetchReady ==
    /\ pc = "f_ready"
    /\ \/ pc' = "f_source" /\ UNCHANGED f
       \/ pc' = AfterReadyTimeout /\ Timeout
       \/ Raise("ready")
    /\ UNCHANGED << mainVars, g, slept, driver, engines, curPage >>

\* self.driver.page_source: the markup of the current page, empty markup
\* (raise Exception), or an exception of the engine
FetchSource ==
    /\ pc = "f_source"
    /\ \/ \E doc \in Pages(curPage) :
            /\ f' = [f EXCEPT !.source = [att |-> f.attempt + 1, doc |-> doc]]
            /\ pc' = "f_parse"
       \/ Raise("source")
    /\ UNCHANGED << mainVars, g, slept, driver, engines, curPage >>

\* where a successful parse leads: the detail scraper saves the markup first
AfterParse(p) == IF p = "detail" THEN "f_save" ELSE "f_return"

\* BeautifulSoup(page_source, 'html.parser')
FetchParse ==
    /\ pc = "f_parse"
    /\ \/ /\ pc' = AfterParse(prog)
          /\ f' = IF AfterParse(prog) = "f_return"
                  THEN [f EXCEPT !.ret = DocResult(f.source.att, f.source.doc),
                                 !.log = f.log \o << Ev("ok", f.attempt + 1) >>]
                  ELSE f
       \/ Raise("parse")
    /\ UNCHANGED << mainVars, g, slept, driver, engines, curPage >>

\* where an exception of os.makedirs / open / write of the debug copy leads:
\* the statements stand inside the attempt's try block
AfterSaveFailure == "f_except"

\* detail only: debug/page_source.html, then return soup
FetchSave ==
    /\ pc = "f_save"
    /\ \/ Return(Log(<< Ev("ok", f.attempt + 1) >>),
                 DocResult(f.source.att, f.source.doc))
       \/ /\ pc' = AfterSaveFailure
          /\ f' = [f EXCEPT !.fault = "save"]
    /\ UNCHANGED << mainVars, g, slept, driver, engines, curPage >>

DetailRetryDelay(attempt) == retry_delay * (attempt + 1)
ListingRetryDelay(attempt) == retry_delay
RetryDelay(p, attempt) ==
    IF p = "detail" THEN DetailRetryDelay(attempt) ELSE ListingRetryDelay(attempt)

\* variant: the handler sleeps but keeps the session it holds
Teardown_KeepsSession == UNCHANGED << driver, engines, curPage >>

\* variant: the handler forgets the session without telling the engine to quit
Teardown_NoQuit ==
    /\ driver' = "none"
    /\ engines' = engines
    /\ curPage' = "blank"

\* the handler's teardown: self.driver.quit() in try/except, self.driver = None
Teardown ==
    /\ driver' = "none"
    /\ engines' = engines - 1
    /\ curPage' = "blank"

\* variant: quit() is called outside any try
QuitEscapes_NoHandler(quitRaises) == quitRaises

\* whether an exception of quit() leaves the handler: the bare except takes all
QuitEscapes(quitRaises) == FALSE

\* whether the handler tears the session down after failed attempt number
\* attempt + 1
TearsDown(attempt) == attempt < max_retries - 1

\* except Exception as e: ...
FetchExcept ==
    /\ pc = "f_except"
    /\ IF TearsDown(f.attempt)
       THEN \E quitRaises \in BOOLEAN :
              /\ f' = [f EXCEPT !.log = f.log \o
                                   << Ev("fail", f.attempt + 1),
                                      Ev("sleep", RetryDelay(prog, f.attempt)),
                                      Ev("quit", f.attempt + 1) >>,
                                !.attempt = f.attempt + 1,
                                !.timeouts = 0,
                                !.fault = ""]
              /\ Teardown
              /\ pc' = IF QuitEscapes(quitRaises) THEN "raised" ELSE "f_begin"
       ELSE /\ Return([Log(<< Ev("fail", f.attempt + 1) >>) EXCEPT !.fault = ""], PyNone)
            /\ UNCHANGED << driver, engines, curPage >>
    /\ UNCHANGED << mainVars, g, slept >>

-----------------------------------------------------------------------------
(* get_community_details and extract_homesites (detail scraper) *)

selectors == << "SearchProductCard_card__htFY3", "SearchProductCard",
                "community-details", "product-card", "body" >>

\* a frame that is not in use holds these values
Idle == NewFrame("", "", "")

\* g.navs counts the navigation attempts of the fetches of the selectors that
\* were given up, up to max_retries
NewGcd(url) ==
    [url |-> url, sel |-> 1, navs |-> 0, soup |-> PyNone, jsonld |-> EmptyMap,
     card |-> 1, homesites |-> <<>>]

\* the call scraper.get_community_details(url): the first selector's fetch
GcdCall(url) ==
    /\ g' = NewGcd(url)
    /\ FetchCall(url, selectors[1], "community")

\* get_community_details returns v to main
GcdReturn(v) ==
    /\ info' = v
    /\ pc' = "m_after"
    /\ g' = NewGcd("")
    /\ f' = Idle

restOfMain == << prog, mode, links, idx, success_count, produced, processed,
                 json_saved, html_saved, locations, all_links >>

\* true when the selector loop goes on to the next selector after a fetch
\* that returned None
TriesNextSelector(sel) == sel < Len(selectors)

\* the selector loop after a fetch, then lines 508-556 up to extract_homesites
GcdAfterFetch ==
    /\ pc = "f_return"
    /\ f.caller = "community"
    /\ fetched' = IF f.ret.t = "doc" THEN Append(fetched, g.url) ELSE fetched
    /\ IF f.ret.t = "doc"
       THEN IF PriceRaises(extract_jsonld_data(f.ret.doc.blocks))
            THEN /\ GcdReturn(PyNone)
                 /\ UNCHANGED slept
            ELSE /\ g' = [g EXCEPT !.soup = f.ret.doc,
                                   !.jsonld = extract_jsonld_data(f.ret.doc.blocks)]
                 /\ f' = Idle
                 /\ pc' = "h_card"
                 /\ UNCHANGED << info, slept >>
       ELSE IF TriesNextSelector(g.sel)
            THEN /\ g' = [g EXCEPT !.sel = g.sel + 1,
                                   !.navs = Min({max_retries,
                                                 g.navs + Count(f.log, "nav")})]
                 /\ FetchCall(g.url, selectors[g.sel + 1], "community")
                 /\ UNCHANGED info
            ELSE /\ GcdReturn(PyNone)
                 /\ UNCHANGED slept
    /\ UNCHANGED << restOfMain, driver, engines, curPage >>

\* extract_homesites: the next card, or the end of the cards and the return
\* of the assembled record
HomesiteCard ==
    /\ pc = "h_card"
    /\ IF g.card > Len(g.soup.cards)
       THEN /\ GcdReturn(community_info(g.soup, g.url, g.homesites))
            /\ UNCHANGED slept
       ELSE IF ~Truthy(g.soup.cards[g.card].href)
            THEN /\ g' = [g EXCEPT !.card = g.card + 1]
                 /\ UNCHANGED << pc, info, f, slept >>
            ELSE /\ FetchCall(g.soup.cards[g.card].href.u, "body", "homesite")
                 /\ UNCHANGED << g, info >>
    /\ UNCHANGED << restOfMain, fetched, driver, engines, curPage >>

\* extract_homesites after the fetch of the card's detail page
HomesiteAfterFetch ==
    /\ pc = "f_return"
    /\ f.caller = "homesite"
    /\ LET detail == IF f.ret.t = "doc" THEN f.ret.doc ELSE PyNone
           card == g.soup.cards[g.card]
       IN g' = [g EXCEPT !.card = g.card + 1,
                         !.homesites = IF HomesiteRaises(card, detail)
                                       THEN g.homesites
                                       ELSE Append(g.homesites, Homesite(card, detail))]
    /\ f' = Idle
    /\ pc' = "h_card"
    /\ UNCHANGED << mainVars, slept, driver, engines, curPage >>

-----------------------------------------------------------------------------
(* main of get_tollbrothers_page.py *)

\* os.path.basename(url).replace('/', '_'): urls are atoms, one slug per url
Slug(url) == url

\* main up to the first call: the output directories, then the mode
MainStart ==
    /\ pc = "m_start"
    /\ prog = "detail"
    /\ \/ /\ pc' = "done"
          /\ UNCHANGED << processed, f, g, slept >>
       \/ /\ mode = "url"
          /\ processed' = << links[1] >>
          /\ GcdCall(links[1])
       \/ /\ mode = "batch"
          /\ pc' = "m_load"
          /\ UNCHANGED << processed, f, g, slept >>
       \/ /\ mode = "none"
          /\ pc' = "m_finally"
          /\ UNCHANGED << processed, f, g, slept >>
    /\ UNCHANGED << prog, mode, links, idx, info, success_count, produced,
                    fetched, json_saved, html_saved, locations, all_links,
                    driver, engines, curPage >>

\* batch: read output/communities_links.json
MainLoad ==
    /\ pc = "m_load"
    /\ \/ pc' = "m_finally"
       \/ pc' = IF links = <<>> THEN "m_finally" ELSE "m_loop"
    /\ UNCHANGED << mainVars, f, g, slept, driver, engines, curPage >>

\* batch: the head of the for loop
MainLoop ==
    /\ pc = "m_loop"
    /\ IF idx <= Len(links)
       THEN /\ processed' = Append(processed, links[idx])
            /\ GcdCall(links[idx])
       ELSE /\ pc' = "m_finally"
            /\ UNCHANGED << processed, f, g, slept >>
    /\ UNCHANGED << prog, mode, links, idx, info, success_count, produced,
                    fetched, json_saved, html_saved, locations, all_links,
                    driver, engines, curPage >>

\* after the body of one work item
NextItem ==
    IF mode = "batch"
    THEN pc' = "m_loop" /\ idx' = idx + 1
    ELSE pc' = "m_finally" /\ UNCHANGED idx

\* main after get_community_details returned: the two saves, the count, the
\* sleep.  produced lists the urls of the records main received.
MainAfter ==
    /\ pc = "m_after"
    /\ NextItem
    /\ info' = PyNone
    /\ IF info # PyNone
       THEN /\ produced' = Append(produced, info.url)
            /\ \E jsonOk \in BOOLEAN :
                 json_saved' = IF jsonOk THEN json_saved \cup {Slug(links[idx])}
                               ELSE json_saved
            /\ IF driver # "none"
               THEN \/ /\ \E htmlOk \in BOOLEAN :
                            html_saved' =
                              IF htmlOk
                              THEN html_saved \cup {<< Slug(links[idx]), curPage >>}
                              ELSE html_saved
                       /\ success_count' = IF mode = "batch" THEN success_count + 1
                                           ELSE success_count
                       /\ slept' = (mode = "batch")
                    \/ \* scraper.driver.page_source raises
                       /\ UNCHANGED << html_saved, success_count, slept >>
               ELSE /\ success_count' = IF mode = "batch" THEN success_count + 1
                                        ELSE success_count
                    /\ slept' = (mode = "batch")
                    /\ UNCHANGED html_saved
       ELSE /\ slept' = (mode = "batch")
            /\ UNCHANGED << produced, json_saved, html_saved, success_count >>
    /\ UNCHANGED << prog, mode, links, processed, fetched, locations, all_links,
                    f, g, driver, engines, curPage >>

\* variant: main ends without the finally block that calls close()
MainFinally_NoClose ==
    /\ pc = "m_finally"
    /\ pc' = "done"
    /\ UNCHANGED << mainVars, f, g, slept, driver, engines, curPage >>

\* close(), in the finally block of either main
MainFinally ==
    /\ pc = "m_finally"
    /\ IF driver # "none"
       THEN driver' = "none" /\ engines' = engines - 1 /\ curPage' = "blank"
       ELSE UNCHANGED << driver, engines, curPage >>
    /\ pc' = "done"
    /\ UNCHANGED << mainVars, f, g, slept >>

-----------------------------------------------------------------------------
(* get_tollbrothers_api_links.py: get_locations, get_communities, main *)

CityInfo(u) == [state |-> EmptyStr, name |-> EmptyStr, url |-> u.u]

RECURSIVE get_locations(_)
get_locations(cities) ==
    IF cities = <<>> THEN <<>>
    ELSE << CityInfo(Head(cities)) >> \o get_locations(Tail(cities))

Summary(card) ==
    [url |-> card.href.u, name |-> EmptyStr, location |-> EmptyStr,
     price |-> EmptyStr, details |-> EmptyMap, community_type |-> EmptyStr,
     home_type |-> EmptyStr]

\* a card without link is passed over; one that raises is logged and skipped
RECURSIVE get_communities(_)
get_communities(cards) ==
    IF cards = <<>> THEN <<>>
    ELSE (IF Truthy(Head(cards).href) /\ ~Head(cards).bad
          THEN << Summary(Head(cards)) >> ELSE <<>>) \o get_communities(Tail(cards))

\* main up to get_locations' fetch
ListStart ==
    /\ pc = "m_start"
    /\ prog = "listing"
    /\ \/ /\ pc' = "done"
          /\ UNCHANGED << f, slept >>
       \/ FetchCall(BaseUrl, "MetroGrid_metro_areas_states___Ox83", "locations")
    /\ UNCHANGED << mainVars, g, driver, engines, curPage >>

\* get_locations after its fetch, and main's test of the result
LocationsAfterFetch ==
    /\ pc = "f_return"
    /\ f.caller = "locations"
    /\ LET locs == IF f.ret.t = "doc" THEN get_locations(f.ret.doc.cities) ELSE <<>>
       IN /\ locations' = locs
          /\ pc' = IF locs = <<>> THEN "m_finally" ELSE "l_loop"
    /\ f' = Idle
    /\ UNCHANGED << prog, mode, links, idx, info, success_count, produced,
                    processed, fetched, json_saved, html_saved, all_links,
                    g, slept, driver, engines, curPage >>

\* the head of main's loop over the cities
ListLoop ==
    /\ pc = "l_loop"
    /\ IF idx <= Len(locations)
       THEN FetchCall(locations[idx].url, "SearchProductCard_card__htFY3", "communities")
       ELSE /\ pc' = "l_save"
            /\ UNCHANGED << f, slept >>
    /\ UNCHANGED << mainVars, g, driver, engines, curPage >>

\* get_communities after its fetch, then the rest of the loop body
CommunitiesAfterFetch ==
    /\ pc = "f_return"
    /\ f.caller = "communities"
    /\ all_links' = all_links \o
                    (IF f.ret.t = "doc" THEN get_communities(f.ret.doc.cards) ELSE <<>>)
    /\ f' = Idle
    /\ slept' = TRUE
    /\ idx' = idx + 1
    /\ pc' = "l_loop"
    /\ UNCHANGED << prog, mode, links, info, success_count, produced, processed,
                    fetched, json_saved, html_saved, locations, g, driver, engines,
                    curPage >>

\* save_data(all_community_links, 'communities_links.json') when there are any
ListSave ==
    /\ pc = "l_save"
    /\ \E ok \in BOOLEAN :
         json_saved' = IF all_links # <<>> /\ ok
                       THEN json_saved \cup {"communities_links"}
                       ELSE json_saved
    /\ pc' = "m_finally"
    /\ UNCHANGED << prog, mode, links, idx, info, success_count, produced,
                    processed, fetched, html_saved, locations, all_links,
                    f, g, slept, driver, engines, curPage >>

-----------------------------------------------------------------------------
(* The specification *)

Prefixes(q, n) == {SubSeq(q, 1, k) : k \in 0..n}

Init ==
    /\ prog \in {"detail", "listing"}
    /\ mode \in IF prog = "detail" THEN {"url", "batch", "none"} ELSE {"crawl"}
    /\ links \in CASE mode = "url" -> {<< CommunityList[1] >>}
                   [] mode = "batch" -> Prefixes(CommunityList, MaxLinks)
                   [] OTHER -> {<<>>}
    /\ pc = "m_start"
    /\ driver = "none"
    /\ engines = 0
    /\ curPage = "blank"
    /\ f = Idle
    /\ g = NewGcd("")
    /\ idx = 1
    /\ info = PyNone
    /\ success_count = 0
    /\ produced = <<>>
    /\ processed = <<>>
    /\ fetched = <<>>
    /\ json_saved = {}
    /\ html_saved = {}
    /\ slept = FALSE
    /\ locations = <<>>
    /\ all_links = <<>>

Next ==
    \/ FetchBegin \/ FetchNav \/ FetchMarker \/ FetchBackup \/ FetchReady
    \/ FetchSource \/ FetchParse \/ FetchSave \/ FetchExcept
    \/ GcdAfterFetch \/ HomesiteCard \/ HomesiteAfterFetch
    \/ MainStart \/ MainLoad \/ MainLoop \/ MainAfter \/ MainFinally
    \/ ListStart \/ LocationsAfterFetch \/ ListLoop \/ CommunitiesAfterFetch
    \/ ListSave

Spec == Init /\ [][Next]_vars

-----------------------------------------------------------------------------
(* The extractors on their own: get_community_details from the return of a  *)
(* page fetch on, over the documents for the extractors                     *)

\* the frame of a fetch of url for caller that returned doc at the first attempt
FetchedFrame(url, wait, caller, doc) ==
    [NewFrame(url, wait, caller) EXCEPT
       !.log = << Ev("setup", 1), Ev("nav", 1), Ev("ok", 1) >>,
       !.source = [att |-> 1, doc |-> doc],
       !.ret = DocResult(1, doc)]

\* the frame of a fetch that returned None after max_retries failed attempts
FailedFrame(url, wait, caller) ==
    [NewFrame(url, wait, caller) EXCEPT
       !.attempt = max_retries - 1,
       !.log = << Ev("nav", 1), Ev("fail", 1), Ev("sleep", DetailRetryDelay(0)),
                  Ev("quit", 1), Ev("setup", 2), Ev("nav", 2), Ev("fail", 2),
                  Ev("sleep", DetailRetryDelay(1)), Ev("quit", 2), Ev("setup", 3),
                  Ev("nav", 3), Ev("fail", 3) >>,
       !.ret = PyNone]

ExtractInit ==
    /\ prog = "detail"
    /\ mode = "url"
    /\ links = << CommunityList[1] >>
    /\ pc = "f_return"
    /\ driver = "ready"
    /\ engines = 1
    /\ idx = 1
    /\ info = PyNone
    /\ success_count = 0
    /\ produced = <<>>
    /\ processed = links
    /\ json_saved = {}
    /\ html_saved = {}
    /\ slept = FALSE
    /\ locations = <<>>
    /\ all_links = <<>>
    /\ \/ \* the community page has just been fetched
          /\ \E doc \in ExtractDocs :
                f = FetchedFrame(links[1], selectors[1], "community", doc)
          /\ g = NewGcd(links[1])
          /\ curPage = links[1]
          /\ fetched = <<>>
       \/ \* the detail page of the only homesite card has just been fetched, or not
          /\ \E card \in ExtractCards :
                g = [NewGcd(links[1]) EXCEPT !.soup = [BlankDoc EXCEPT !.cards = << card >>]]
          /\ \/ \E detail \in ExtractDetails :
                    f = FetchedFrame("h1", "body", "homesite", detail)
             \/ f = FailedFrame("h1", "body", "homesite")
          /\ curPage = "h1"
          /\ fetched = links

ExtractNext == GcdAfterFetch \/ HomesiteCard \/ HomesiteAfterFetch

ExtractSpec == ExtractInit /\ [][ExtractNext]_vars

-----------------------------------------------------------------------------
(* Properties of the page fetch *)

Returned == pc = "f_return"
Failed == Returned /\ f.ret = PyNone
Succeeded == Returned /\ f.ret.t = "doc"
Events(e) == {i \in 1..Len(f.log) : f.log[i].e = e}

\* C1: a call of the detail scraper's fetch whose attempts 1 and 2 raise and
\* whose attempt 3 succeeds returns the document of attempt 3, after exactly
\* 3 navigations and exactly 2 teardowns, each followed at once by one
\* creation of a session (2 recreations in all).
C1_TwoFailuresThenSuccess ==
    (prog = "detail" /\ Succeeded /\ Count(f.log, "fail") = 2) =>
        /\ f.ret.att = 3
        /\ f.source.att = 3
        /\ f.ret.doc = f.source.doc
        /\ Count(f.log, "nav") = 3
        /\ Count(f.log, "quit") = 2
        /\ \A i \in Events("quit") : i < Len(f.log) /\ f.log[i + 1].e = "setup"
        /\ Cardinality({i \in Events("setup") : i > 1 /\ f.log[i - 1].e = "quit"}) = 2

C1_Witness ==
    /\ prog = "detail"
    /\ Succeeded
    /\ Count(f.log, "fail") = 2
    /\ f.ret.att = 3

\* C2 (as claimed): in both scrapers the wait after failed attempt k is
\* retry_delay * k seconds, so the waits of one call increase strictly.
C2_LinearBackoff ==
    /\ \A i \in Events("sleep") :
         i > 1 /\ f.log[i - 1].e = "fail" /\ f.log[i].n = retry_delay * f.log[i - 1].n
    /\ \A i, j \in Events("sleep") : i < j => f.log[i].n < f.log[j].n

NoEscape == pc # "raised"
BoundedAttempts ==
    /\ f.attempt < max_retries
    /\ Count(f.log, "nav") <= max_retries

\* C3 (as claimed): a call of fetch ends with a document or None, lets no
\* exception escape, makes at most max_retries navigations, and returns None
\* only after max_retries attempts have failed.
C3_FailureOnlyAfterAllRetries ==
    /\ NoEscape
    /\ BoundedAttempts
    /\ Returned => f.ret.t \in {"doc", "none"}
    /\ Failed => Count(f.log, "fail") = max_retries

\* C3 (amended): a call of fetch ends with a document or None, lets no
\* exception escape, makes at most max_retries navigations, and returns None
\* only after max_retries attempts have failed or right after _setup_driver
\* failed to create the session.
C3_FailureAfterRetriesOrSetup ==
    /\ NoEscape
    /\ BoundedAttempts
    /\ Returned => f.ret.t \in {"doc", "none"}
    /\ Failed => \/ Count(f.log, "fail") = max_retries
                 \/ f.log[Len(f.log)].e = "setup_fail"

C3_Witness ==
    /\ Failed
    /\ Count(f.log, "fail") = max_retries
    /\ Count(f.log, "nav") = max_retries

\* C4 (as claimed): when fetch returns None because all max_retries attempts
\* raised, the session has been terminated and the fetcher holds none.
C4_TornDownAfterLastFailure ==
    (Failed /\ Count(f.log, "fail") = max_retries) => (driver = "none" /\ engines = 0)

\* C5: at most one session is live (started and not yet told to quit) in every
\* state; a session is live exactly when the fetcher holds one, so one is
\* created only when none is held; constructing the scraper creates none.
C5_AtMostOneSession ==
    /\ engines <= 1
    /\ (engines = 1) <=> (driver # "none")
    /\ pc = "m_start" => engines = 0

C5_Witness ==
    /\ engines = 1
    /\ driver = "ready"
    /\ Count(f.log, "quit") >= 1
    /\ f.log[Len(f.log)].e = "setup"

\* C6 (as claimed): a failure to write the debug copy of the markup does not
\* fail the attempt: it never sends the attempt to the failure handler.
C6_PersistFailureIsHarmless == ~(pc = "f_except" /\ f.fault = "save")

Waits == {"f_marker", "f_backup", "f_ready"}

\* C7: a timeout of the marker wait, of its fallback or of the document-ready
\* wait is a warning: the step goes on to the next stage of the same attempt
\* (the last one to serialization) and changes neither the attempt number nor
\* the call's history nor the session.
C7_TimeoutIsSoft ==
    [][(pc \in Waits /\ f'.timeouts = f.timeouts + 1) =>
          /\ pc' = CASE pc = "f_marker" -> IF prog = "detail" THEN "f_backup" ELSE "f_ready"
                     [] pc = "f_backup" -> "f_ready"
                     [] pc = "f_ready" -> "f_source"
          /\ f'.attempt = f.attempt
          /\ f'.log = f.log
          /\ f'.fault = ""
          /\ driver' = driver
          /\ engines' = engines
          /\ curPage' = curPage]_vars

\* a call whose first attempt saw timeouts and returned the document
C7_Witness ==
    /\ Succeeded
    /\ f.timeouts >= 2
    /\ f.ret.att = 1
    /\ Count(f.log, "fail") = 0
    /\ Count(f.log, "quit") = 0

-----------------------------------------------------------------------------
(* Properties of the batch run and of record assembly *)

\* the batch loop ran to its end
LoopDone ==
    /\ mode = "batch"
    /\ pc \in {"m_finally", "done"}
    /\ links # <<>>
    /\ idx = Len(links) + 1

WasFetched(u) == u \in SeqToSet(fetched)

\* C8 (as claimed): in batch mode every entry is processed exactly once, in
\* input order, whatever happened to the earlier ones, and the records
\* produced are those of the entries whose detail fetch succeeded.
C8_BatchPartialSuccess ==
    /\ mode = "batch" =>
         /\ Len(processed) <= Len(links)
         /\ processed = SubSeq(links, 1, Len(processed))
    /\ LoopDone =>
         /\ processed = links
         /\ produced = SelectSeq(links, WasFetched)
         /\ Len(produced) = Len(fetched)

\* get_community_details has just returned to main for a url whose page it
\* had fetched
ReturnedForFetched ==
    /\ pc = "m_after"
    /\ fetched # <<>>
    /\ fetched[Len(fetched)] = links[idx]

\* C9 (as claimed): a field whose computation fails on a fetched document does
\* not cost the record: get_community_details returns a record, not None,
\* for every document it fetched.
C9_FieldFailureIsIsolated == ReturnedForFetched => info # PyNone

RecordKeys ==
    {"timestamp", "name", "url", "status", "price_from", "address", "phone",
     "description", "images", "location", "details", "amenities", "homeplans",
     "homesites", "nearbyplaces"}
DetailsKeys ==
    {"price_range", "sqft_range", "bed_range", "bath_range", "stories_range",
     "community_count"}
HomesiteKeys ==
    {"name", "plan", "id", "address", "price", "beds", "baths", "sqft", "status",
     "image_url", "url", "latitude", "longitude", "overview", "images"}

\* C10: every record get_community_details returns has all fifteen top-level
\* keys, a location with latitude, longitude and address{city, state, market},
\* details with its six keys, and homesites that each have all fifteen keys.
C10_FullShape ==
    (pc = "m_after" /\ info # PyNone) =>
        /\ DOMAIN info = RecordKeys
        /\ DOMAIN info.location = {"latitude", "longitude", "address"}
        /\ DOMAIN info.location.address = {"city", "state", "market"}
        /\ DOMAIN info.details = DetailsKeys
        /\ \A i \in 1..Len(info.homesites) : DOMAIN info.homesites[i] = HomesiteKeys

\* a record with a homesite whose own page could not be fetched
C10_Witness ==
    /\ pc = "m_after"
    /\ info # PyNone
    /\ Len(info.homesites) >= 1
    /\ info.homesites[1].plan = PyNone
    /\ info.location.address.market = PyNone

-----------------------------------------------------------------------------
(* Properties of the extractors *)

\* get_community_details hands its record to main
Assembles == pc = "h_card" /\ pc' = "m_after"

\* the first of the two values that is present and non-empty, else ""
Precedence(meta, dom) ==
    IF Truthy(meta) THEN meta ELSE IF Truthy(dom) THEN dom ELSE EmptyStr

\* C11 (as claimed): name, phone and address of the assembled record are the
\* structured metadata's value when it has one, otherwise what the text
\* extractor of the field (extract_phone, extract_address; the source has none
\* for name) yields on the document, and empty only when both yield nothing.
C11_MetadataThenDom ==
    [][Assembles =>
         /\ info'.name = Precedence(Get(g.jsonld, "name", EmptyStr), EmptyStr)
         /\ info'.phone = Precedence(Get(g.jsonld, "telephone", EmptyStr),
                                     extract_phone(g.soup))
         /\ info'.address =
              Precedence(IF HasDict(g.jsonld, "address")
                         THEN FormatAddress(g.jsonld["address"].m) ELSE EmptyStr,
                         extract_address(g.soup))]_vars

\* the well-formed blocks of a document, in document order
WellFormed(blocks) == LET Parses(b) == b.parses IN SelectSeq(blocks, Parses)

\* N allow-listed well-formed blocks and one block on which json.loads raises
OneBadBlock(blocks) ==
    /\ Len(blocks) = Len(WellFormed(blocks)) + 1
    /\ \A i \in 1..Len(blocks) : blocks[i] \in ValidBlocks \cup BadBlocks

\* C12: on a document with N well-formed allow-listed blocks and one malformed
\* block at any place, the mapping extract_jsonld_data returned has every key
\* of the N blocks, each with the value of the last of them that defines it.
C12_MalformedBlockSkipped ==
    (pc = "h_card" /\ OneBadBlock(g.soup.blocks)) =>
        LET good == WellFormed(g.soup.blocks)
        IN \A i \in 1..Len(good) : \A k \in DOMAIN good[i].data.m :
              /\ k \in DOMAIN g.jsonld
              /\ g.jsonld[k] =
                   good[Max({j \in 1..Len(good) : k \in DOMAIN good[j].data.m})].data.m[k]

\* a bad block between two blocks that both define name
C12_Witness ==
    /\ pc = "h_card"
    /\ Len(g.soup.blocks) = 3
    /\ g.soup.blocks[2] \in BadBlocks
    /\ OneBadBlock(g.soup.blocks)
    /\ "name" \in DOMAIN g.soup.blocks[1].data.m
    /\ "telephone" \in DOMAIN g.soup.blocks[1].data.m
    /\ g.soup.blocks[3].data.m["name"] # g.soup.blocks[1].data.m["name"]
    /\ g.jsonld["name"] = g.soup.blocks[3].data.m["name"]
    /\ "telephone" \in DOMAIN g.jsonld

\* the text nodes of the document's home-design sections, in scan order
Fragments(doc) ==
    LET RECURSIVE Cat(_)
        Cat(i) == IF i = 0 THEN <<>> ELSE Cat(i - 1) \o doc.designs[i].texts
    IN Cat(Len(doc.designs))

\* a fragment '<n> <unit>': digits, one space, the unit
IsCount(t, unit) ==
    /\ Len(t) > Len(unit) + 1
    /\ SubSeq(t, Len(t) - Len(unit), Len(t)) = <<" ">> \o unit
    /\ IsDigitText(SubSeq(t, 1, Len(t) - Len(unit) - 1))

CountOf(t, unit) == ToInt(SubSeq(t, 1, Len(t) - Len(unit) - 1))

\* '<min n> <unit> - <max n> <unit>' over the counts of the unit's fragments,
\* null when there are none
CountRange(doc, unit) ==
    LET S == {CountOf(t, unit) : t \in {x \in SeqToSet(Fragments(doc)) : IsCount(x, unit)}}
    IN IF S = {} THEN PyNone
       ELSE JStr(ToText(Min(S)) \o <<" ">> \o unit \o <<" ", "-", " ">>
                 \o ToText(Max(S)) \o <<" ">> \o unit)

OnlyCounts(doc) ==
    \A t \in SeqToSet(Fragments(doc)) : IsCount(t, Bd) \/ IsCount(t, Ba)

\* C13 (as claimed): for fragments of the form '<n> bd' and '<n> ba', in any
\* order and with repetitions, the bed and bath ranges of the record are
\* '<min n> bd - <max n> bd' and '<min n> ba - <max n> ba' over the counts,
\* and null when there is no fragment of the kind.
C13_RangeOverCounts ==
    [][(Assembles /\ OnlyCounts(g.soup)) =>
         /\ info'.details.bed_range = CountRange(g.soup, Bd)
         /\ info'.details.bath_range = CountRange(g.soup, Ba)]_vars

\* the part of C13 that holds: one-digit counts, here 5, 3, 4 in this order
C13_OneDigitCase ==
    /\ pc = "m_after"
    /\ info # PyNone
    /\ info.details.bed_range = JStr(<<"3", " ", "b", "d", " ", "-", " ", "5", " ", "b", "d">>)
    /\ info.details.bath_range = PyNone

\* the integer an area text '<number> sqft' denotes: its digits, separators dropped
AreaOf(t) == LET IsDigit(c) == c \in Digits IN ToInt(SelectSeq(t, IsDigit))

OnlyAreas(doc) ==
    /\ doc.designs # <<>>
    /\ \A i \in 1..Len(doc.designs) :
          Len(doc.designs[i].texts) = 1 /\ doc.designs[i].texts[1] \in SqftTexts

\* C14 (as claimed): an area written with or without thousands separators
\* contributes the same integer ('1,250 sqft' and '1250 sqft' both 1250), and
\* the range of the record is min and max over these integers.
C14_SeparatorsDoNotMatter ==
    [][(Assembles /\ OnlyAreas(g.soup)) =>
         LET S == {AreaOf(g.soup.designs[i].texts[1]) : i \in 1..Len(g.soup.designs)}
         IN info'.details.sqft_range =
              JStr(Thousands(Min(S)) \o <<" ", "-", " ">> \o Thousands(Max(S)))]_vars

\* extract_homesites appends the homesite of the card whose detail page it fetched
AddsHomesite ==
    /\ pc = "f_return"
    /\ f.caller = "homesite"
    /\ f.ret.t = "doc"
    /\ Len(g'.homesites) = Len(g.homesites) + 1

\* the urls of a sequence in order of first occurrence, data urls left out
RECURSIVE Discovered(_)
Discovered(srcs) ==
    IF srcs = <<>> THEN <<>>
    ELSE LET before == Discovered(SubSeq(srcs, 1, Len(srcs) - 1))
             src == srcs[Len(srcs)]
         IN IF Truthy(src) /\ ~IsData(src) /\ src \notin SeqToSet(before)
            THEN Append(before, src) ELSE before

NoDuplicateNoData(images) ==
    /\ \A i, j \in 1..Len(images) : images[i] = images[j] => i = j
    /\ \A i \in 1..Len(images) : ~IsData(images[i])

\* C15 (as claimed): a homesite's images are its primary source (the metadata's
\* images, else the card's image) followed by the full-document scan, in
\* discovery order and without duplicates ([A, B] and [B, C] give [A, B, C]);
\* no record's images hold a url twice or a data url.
C15_ImagesMerged ==
    [][/\ AddsHomesite =>
            LET card == g.soup.cards[g.card]
                fromCard == IF Truthy(card.img) THEN << card.img >> ELSE <<>>
                primary == JsonldImages(extract_jsonld_data(f.ret.doc.blocks), fromCard)
            IN g'.homesites[Len(g'.homesites)].images =
                 Discovered(primary \o f.ret.doc.imgs)
       /\ Assembles =>
            /\ NoDuplicateNoData(info'.images)
            /\ \A i \in 1..Len(info'.homesites) :
                  NoDuplicateNoData(info'.homesites[i].images)]_vars

\* extract_homesites appends the homesite of the current card, with or without
\* its detail page
AppendsHomesite ==
    /\ pc = "f_return"
    /\ f.caller = "homesite"
    /\ Len(g'.homesites) = Len(g.homesites) + 1

\* the integer a card text of digits denotes, null for any other text or none
NumericOrNull(v) ==
    IF v # PyNone /\ IsDigitText(Strip(v.s, Space))
    THEN [t |-> "int", n |-> ToInt(Strip(v.s, Space))]
    ELSE PyNone

\* C16 (as claimed): beds and baths of every homesite are the integer the
\* card's text of digits denotes, and null for any other text or no element.
C16_BedsBathsNumeric ==
    [][AppendsHomesite =>
         LET card == g.soup.cards[g.card]
             h == g'.homesites[Len(g'.homesites)]
         IN /\ h.beds = NumericOrNull(card.beds)
            /\ h.baths = NumericOrNull(card.baths)]_vars

\* the half of C16 that holds: baths
C16_BathsNumeric ==
    [][AppendsHomesite =>
         g'.homesites[Len(g'.homesites)].baths
           = NumericOrNull(g.soup.cards[g.card].baths)]_vars

-----------------------------------------------------------------------------
(* Properties of the traversal *)

\* a call of _safe_get_page begins (a retry inside a call comes from f_except)
StartsFetch == pc # "f_except" /\ pc' = "f_begin"

\* the first page fetch of the run
FirstFetch == pc = "m_start" \/ (pc = "m_loop" /\ idx = 1)

\* C17 (as claimed): between two consecutive page fetches of a run lies one
\* politeness sleep (time.sleep(random.uniform(2, 5))): every fetch but the
\* first of the run begins after such a sleep that followed the fetch before.
C17_SleepBetweenFetches ==
    [][(StartsFetch /\ ~FirstFetch) => slept]_vars

\* at the head of the batch loop after the first item: a session creation has
\* failed in this run.  Every item fetches at least once, every fetch creates
\* the session when none is held, and before close() only a failed
\* _setup_driver leaves self.driver None or half configured.
SetupHasFailed == pc = "m_loop" /\ idx > 1 /\ driver # "ready"

\* C18 (as claimed): once _setup_driver has failed during a batch run no later
\* work item is attempted: the loop does not hand the next community to
\* get_community_details (no further fetch begins).
C18_SetupFailureHalts ==
    [][SetupHasFailed => pc' # "f_begin"]_vars

\* C19 (as claimed): when main reads the session's current document to write
\* <slug>.html, the session shows the community page that was passed to
\* get_community_details, so every <slug>.html written holds the markup of the
\* page of its own slug.
C19_HtmlIsOwnPage ==
    /\ (pc = "m_after" /\ info # PyNone /\ driver # "none") => curPage = info.url
    /\ \A e \in html_saved : e[2] = e[1]

\* the navigation attempts to the community url that the running call of
\* get_community_details has made (exact up to max_retries, larger beyond)
NavigationsOfCall == g.navs + Count(f.log, "nav")

\* C20 (as claimed): one call of get_community_details makes at most
\* max_retries navigation attempts to the community url, however many of its
\* selectors' fetches return None.
C20_SelectorsShareRetryBound ==
    f.caller = "community" => NavigationsOfCall <= max_retries

-----------------------------------------------------------------------------
(* Properties of the session's life cycle *)

\* the fetch has just returned None because _setup_driver returned False
SetupJustFailed ==
    /\ Failed
    /\ f.log # <<>>
    /\ f.log[Len(f.log)].e = "setup_fail"

\* C21 (as claimed): whenever _setup_driver has returned False the fetcher
\* holds no session (self.driver is None) and no engine runs, also when the
\* engine was started and a later configuration call raised.
C21_NoSessionAfterSetupFailure ==
    SetupJustFailed => (driver = "none" /\ engines = 0)

\* A bound on the steps main has still to take, from the loops of the code:
\* range(max_retries) in _safe_get_page, the selectors and the cards in
\* get_community_details, the links and the cities in the two mains.
AttemptRank ==
    [p \in {"f_begin", "f_nav", "f_marker", "f_backup", "f_ready", "f_source",
            "f_parse", "f_save", "f_except", "f_return"} |->
       CASE p = "f_begin" -> 9 [] p = "f_nav" -> 8 [] p = "f_marker" -> 7
         [] p = "f_backup" -> 6 [] p = "f_ready" -> 5 [] p = "f_source" -> 4
         [] p = "f_parse" -> 3 [] p = "f_save" -> 2 [] p = "f_except" -> 1
         [] OTHER -> 0]

FetchCost == 10 * max_retries

FetchRank == (max_retries - 1 - f.attempt) * 10 + AttemptRank[pc]

CardsLeft == Len(g.soup.cards) - g.card + 1

HomesiteRank(r) == r * (FetchCost + 2) + 1

GcdRankAt(s) ==
    (Len(selectors) - s) * (FetchCost + 1) + HomesiteRank(MaxCards) + 1

GcdCost == FetchCost + GcdRankAt(1)

ItemsLeft == Len(links) - idx + 1

AfterItem == IF mode = "batch" THEN (ItemsLeft - 1) * (GcdCost + 2) + 3 ELSE 2

CitiesLeft == Len(locations) - idx + 1

CityRank(k) == k * (FetchCost + 2) + 3

TopRank == MaxLinks * (GcdCost + 2) + CityRank(MaxCities) + FetchCost + 5

Rank ==
    CASE pc \in {"done", "raised"} -> 0
      [] pc = "m_finally" -> 1
      [] pc = "l_save" -> 2
      [] pc = "l_loop" -> CityRank(CitiesLeft)
      [] pc = "m_loop" -> ItemsLeft * (GcdCost + 2) + 2
      [] pc = "m_load" -> MaxLinks * (GcdCost + 2) + 3
      [] pc = "m_after" -> AfterItem
      [] pc = "h_card" -> HomesiteRank(CardsLeft) + AfterItem
      [] pc = "m_start" -> TopRank
      [] OTHER ->
           FetchRank +
           (CASE f.caller = "community" -> GcdRankAt(g.sel) + AfterItem
              [] f.caller = "homesite" -> 1 + HomesiteRank(CardsLeft - 1) + AfterItem
              [] f.caller = "locations" -> 1 + CityRank(MaxCities)
              [] OTHER -> 1 + CityRank(CitiesLeft - 1))

\* every action but HomesiteCard
OtherSteps ==
    \/ FetchBegin \/ FetchNav \/ FetchMarker \/ FetchBackup \/ FetchReady
    \/ FetchSource \/ FetchParse \/ FetchSave \/ FetchExcept
    \/ GcdAfterFetch \/ HomesiteAfterFetch
    \/ MainStart \/ MainLoad \/ MainLoop \/ MainAfter \/ MainFinally
    \/ ListStart \/ LocationsAfterFetch \/ ListLoop \/ CommunitiesAfterFetch
    \/ ListSave

\* main has a next step.  At h_card the step is HomesiteCard: its guard is
\* the position alone and each branch of its IF gives the next state, once
\* the page of the community is held.
HasStep ==
    \/ pc = "h_card" /\ g.soup # PyNone /\ g.card \in 1..(Len(g.soup.cards) + 1)
    \/ ENABLED OtherSteps

\* C22: every run of either main ends, and ends with the session closed.
\* Whatever the mode and whatever fails, (1) when main has returned, also by
\* an early return, the scraper holds no session and no engine is left
\* running, (2) before that main always has a next step, and (3) every step
\* lowers a natural-number bound on the steps left, so that no run goes on
\* for ever.
C22_TerminatesClosed ==
    /\ [](pc = "done" => (driver = "none" /\ engines = 0))
    /\ [](pc # "done" => HasStep)
    /\ [](Rank \in Nat)
    /\ [][Rank' < Rank]_vars

\* a batch run that produced a record, used a session and has returned
C22_Witness ==
    /\ pc = "done"
    /\ mode = "batch"
    /\ produced # <<>>
    /\ driver = "none"
    /\ engines = 0

====
